---------------------------- MODULE Spec2Model ----------------------------
(***************************************************************************)
(* Model of SvExEvalSurfaceNode (nodes/surface/evaluate_surface.py): one   *)
(* run of process() over batched socket data, with the helpers it calls    *)
(* (make_grid_input, make_edges_xy, make_faces_xy, parse_input,            *)
(* build_output) computed as the Python/NumPy code computes them.          *)
(*                                                                         *)
(* Numbers: a real is the pair <<numerator, denominator>>; an integer n    *)
(* converted by np.array is <<n, 1>>.  Vertex indices are plain integers,  *)
(* 0-based as in the code; TLA+ sequences are 1-based, so the point with   *)
(* index i is element i+1 of a point sequence.                             *)
(* The surface is opaque: the coordinates it returns for (u, v) are the    *)
(* uninterpreted terms [s, axis, u, v].                                    *)
(***************************************************************************)
EXTENDS Integers, Sequences, FiniteSets

\* Longest socket batch explored, largest sample count inside a batch of
\* several tuples, and largest sample count of a single-tuple run.
MaxBatch == 2
BatchSamples == 3
MaxSamples == 4

VARIABLES
    coord_mode,      \* node property: "XY" | "UV"
    eval_mode,       \* node property: "GRID" | "EXPLICIT"
    input_mode,      \* node property: "PAIRS" | "VERTICES"
    orientation,     \* node property: "XY" | "YZ" | "XZ"
    linked,          \* the output sockets that are linked
    surfaces_s, target_us_s, target_vs_s, target_verts_s,
    samples_u_s, samples_v_s,            \* what sv_get() returned
    verts_out, edges_out, faces_out,     \* the lists process() builds
    idx,             \* number of aligned tuples the loop has consumed
    pc,              \* "idle" | "loop" | "done" | "failed"
    calls,           \* log of surface.evaluate_array calls
    warnings,        \* number of self.warning calls
    sv_get_calls,    \* number of sv_get calls on the input sockets
    sv_set_calls,    \* number of sv_set calls on the output sockets
    outputs          \* what sv_set stored on the output sockets

vars == <<coord_mode, eval_mode, input_mode, orientation, linked,
          surfaces_s, target_us_s, target_vs_s, target_verts_s,
          samples_u_s, samples_v_s, verts_out, edges_out, faces_out,
          idx, pc, calls, warnings, sv_get_calls, sv_set_calls, outputs>>

props == <<coord_mode, eval_mode, input_mode, orientation, linked>>
socket_data == <<surfaces_s, target_us_s, target_vs_s, target_verts_s,
                 samples_u_s, samples_v_s>>

---------------------------------------------------------------------------
(* Small helpers for Python idioms *)

Min(a, b) == IF a < b THEN a ELSE b

RECURSIVE Concat(_)
\* list.extend over a sequence of lists / ndarray.flatten of a 2-D array
Concat(rows) ==
    IF rows = <<>> THEN <<>> ELSE Head(rows) \o Concat(Tail(rows))


---------------------------------------------------------------------------
(* TopologyBuilder: make_edges_xy, make_faces_xy *)

\* e_row = [(i + samples_u*row, (i+1) + samples_u*row) for i in range(samples_u-1)]
e_row(samples_u, row) ==
    [k \in 1..(samples_u - 1) |->
        LET i == k - 1 IN <<i + samples_u * row, (i + 1) + samples_u * row>>]

\* variant: the column edges stop one column early (range(samples_u - 1))
e_col_short(samples_u, row) ==
    [k \in 1..(samples_u - 1) |->
        LET i == k - 1 IN <<i + samples_u * row, i + samples_u * (row + 1)>>]

\* e_col = [(i + samples_u*row, i + samples_u*(row+1)) for i in range(samples_u)]
e_col(samples_u, row) ==
    [k \in 1..samples_u |->
        LET i == k - 1 IN <<i + samples_u * row, i + samples_u * (row + 1)>>]

\* variant: the column edges are added after the last row too
make_edges_xy_unguarded(samples_u, samples_v) ==
    Concat([k \in 1..samples_v |->
        LET row == k - 1 IN e_row(samples_u, row) \o e_col(samples_u, row)])

make_edges_xy(samples_u, samples_v) ==
    Concat([k \in 1..samples_v |->
        LET row == k - 1 IN
        e_row(samples_u, row)
            \o (IF row < samples_v - 1 THEN e_col(samples_u, row) ELSE <<>>)])

\* variant: the corners are listed in a crossed order
face_crossed(samples_u, i) == <<i, i + samples_u, i + 1, i + samples_u + 1>>

\* face = (i, i+samples_u, i+samples_u+1, i+1)
face(samples_u, i) == <<i, i + samples_u, i + samples_u + 1, i + 1>>

\* variant: the row loop runs over range(samples_v)
make_faces_xy_all_rows(samples_u, samples_v) ==
    Concat([r \in 1..samples_v |->
        [c \in 1..(samples_u - 1) |->
            LET row == r - 1
                col == c - 1
            IN  face(samples_u, row * samples_u + col)]])

make_faces_xy(samples_u, samples_v) ==
    Concat([r \in 1..(samples_v - 1) |->
        [c \in 1..(samples_u - 1) |->
            LET row == r - 1
                col == c - 1
            IN  face(samples_u, row * samples_u + col)]])

---------------------------------------------------------------------------
(* ParameterResolver: make_grid_input, parse_input *)

\* np.linspace(start, stop, num): num evenly spaced reals, both ends included
linspace(start, stop, num) ==
    [k \in 1..num |->
        IF num = 1 THEN <<start, 1>>
        ELSE <<start * (num - 1) + (k - 1) * (stop - start), num - 1>>]

\* variant: np.meshgrid with indexing='ij'
meshgrid_ij(xs, ys) ==
    << [r \in 1..Len(xs) |-> [c \in 1..Len(ys) |-> xs[r]]],
       [r \in 1..Len(xs) |-> ys] >>

\* np.meshgrid(xs, ys), default indexing='xy': two arrays of shape
\* (len(ys), len(xs)); X[r][c] = xs[c], Y[r][c] = ys[r]
meshgrid(xs, ys) ==
    << [r \in 1..Len(ys) |-> xs],
       [r \in 1..Len(ys) |-> [c \in 1..Len(xs) |-> ys[r]]] >>

\* ndarray.flatten() of a 2-D array: rows one after another
flatten(a) == Concat(a)

make_grid_input(surface, samples_u, samples_v) ==
    LET us == linspace(surface.u_min, surface.u_max, samples_u)
        vs == linspace(surface.v_min, surface.v_max, samples_v)
        g  == meshgrid(us, vs)
    IN  <<flatten(g[1]), flatten(g[2])>>

\* np.array(list of numbers)
np_array(xs) == [k \in 1..Len(xs) |-> <<xs[k], 1>>]

\* variant: the YZ branch is missing, YZ is read as XZ
parse_input_xz_for_yz(orient, verts) ==
    LET col(j) == [k \in 1..Len(verts) |-> <<verts[k][j], 1>>]
    IN  IF orient = "XY" THEN <<col(1), col(2)>> ELSE <<col(1), col(3)>>

\* verts[:,j] of np.array(verts); defined for a non-empty list of 3-tuples
parse_input(orient, verts) ==
    LET col(j) == [k \in 1..Len(verts) |-> <<verts[k][j], 1>>]
    IN  IF orient = "XY" THEN <<col(1), col(2)>>
        ELSE IF orient = "YZ" THEN <<col(2), col(3)>>
        ELSE <<col(1), col(3)>>

\* np.array([]) is 1-D, so verts[:,0] raises IndexError
parse_input_raises(verts) == verts = <<>>

---------------------------------------------------------------------------
(* SurfaceSampler and OutputTransformer *)

\* surface.evaluate_array(us, vs): one 3-D point per position
evaluate_array(surface, us, vs) ==
    [k \in 1..Len(us) |->
        << [s |-> surface.id, axis |-> "x", u |-> us[k], v |-> vs[k]],
           [s |-> surface.id, axis |-> "y", u |-> us[k], v |-> vs[k]],
           [s |-> surface.id, axis |-> "z", u |-> us[k], v |-> vs[k]] >>]

\* verts[:,dst] = verts[:,src] on the array itself (the right side is a view)
assign_column(verts, dst, src) ==
    [k \in 1..Len(verts) |-> [verts[k] EXCEPT ![dst] = verts[k][src]]]

\* lines 129-135: the three column assignments run left to right, each
\* reading the array as the previous one left it
build_output(surface, verts) ==
    IF surface.input_orientation = "X"
    THEN assign_column(assign_column(assign_column(verts, 2, 1), 3, 2), 1, 3)
    ELSE IF surface.input_orientation = "Y"
    THEN assign_column(assign_column(assign_column(verts, 3, 1), 1, 2), 2, 3)
    ELSE verts

\* lines 136-140: np.apply_along_axis(..., 2, verts) on a 2-D array raises
\* AxisError
build_output_raises(surface) == surface.has_input_matrix


---------------------------------------------------------------------------
(* The data the sockets can deliver *)

\* Surfaces supplied by the surrounding system: what the getters return
Surfaces ==
    { [id |-> "plane_z", coord_mode |-> "XY", input_orientation |-> "Z",
       has_input_matrix |-> FALSE, u_min |-> 0, u_max |-> 1, v_min |-> 0, v_max |-> 2],
      [id |-> "plane_x", coord_mode |-> "XY", input_orientation |-> "X",
       has_input_matrix |-> FALSE, u_min |-> -1, u_max |-> 1, v_min |-> 0, v_max |-> 1],
      [id |-> "sphere_y", coord_mode |-> "UV", input_orientation |-> "Y",
       has_input_matrix |-> FALSE, u_min |-> 0, u_max |-> 3, v_min |-> 1, v_max |-> 2],
      [id |-> "placed_z", coord_mode |-> "XY", input_orientation |-> "Z",
       has_input_matrix |-> TRUE, u_min |-> 0, u_max |-> 1, v_min |-> 0, v_max |-> 1] }

\* Non-empty batches of at most MaxBatch items
BatchSeq(S) == UNION { [1..n -> S] : n \in 1..MaxBatch }

ULists == { <<0, 1>>, <<2, 0>> }
VLists == { <<5, 6>> }
VertLists == { << <<10, 20, 30>> >>, << <<1, 2, 3>>, <<4, 5, 6>> >> }

\* sv_get(default=[[]]) of a socket that is not linked
EmptyDefault == << <<>> >>

\* samples_u / samples_v: IntProperty(min = 3); an unlinked SamplesU/SamplesV
\* socket delivers [[property value]]
PropSamples == { n \in 1..MaxSamples : n >= 3 }
\* a linked SamplesU/SamplesV socket delivers whatever the upstream node
\* sent: the values explored are 2 and up
LinkedSamples(max) == { n \in 1..max : n >= 2 }

\* <<surfaces_s, samples_u_s, samples_v_s>> of a grid-mode run: batches with
\* small grids, or one tuple with a grid of up to MaxSamples per axis
GridSockets ==
    ( BatchSeq(Surfaces)
        \X BatchSeq({ <<n>> : n \in LinkedSamples(BatchSamples) })
        \X { << <<n>> >> : n \in LinkedSamples(BatchSamples) } )
    \cup
    ( { <<s>> : s \in Surfaces }
        \X { << <<n>> >> : n \in LinkedSamples(MaxSamples) }
        \X { << <<n>> >> : n \in LinkedSamples(MaxSamples) } )

\* the same of an explicit-mode run, where the samples sockets are hidden and
\* deliver the properties: batches with both properties at their minimum, or
\* one surface with any property values
MinSamples == CHOOSE m \in PropSamples : \A k \in PropSamples : m <= k
ExplicitSockets ==
    ( BatchSeq(Surfaces) \X { << <<MinSamples>> >> } \X { << <<MinSamples>> >> } )
    \cup
    ( { <<s>> : s \in Surfaces }
        \X { << <<n>> >> : n \in PropSamples }
        \X { << <<n>> >> : n \in PropSamples } )

\* update_sockets: which input sockets the node hides (hidden sockets are
\* taken to be unlinked)
uv_hidden == eval_mode = "GRID" \/ input_mode = "VERTICES"
vertices_hidden == eval_mode = "GRID" \/ input_mode = "PAIRS"
samples_hidden == eval_mode # "GRID"

Outputs == {"Vertices", "Edges", "Faces"}

---------------------------------------------------------------------------
(* process() *)

\* zip_long_repeat: max(len) tuples, a shorter list repeats its last element
zip_long_repeat(lists) ==
    LET n == CHOOSE m \in { Len(lists[i]) : i \in 1..Len(lists) } :
                 \A i \in 1..Len(lists) : Len(lists[i]) <= m
    IN  [p \in 1..n |-> [i \in 1..Len(lists) |-> lists[i][Min(p, Len(lists[i]))]]]

\* line 189
inputs ==
    zip_long_repeat(<<surfaces_s, target_us_s, target_vs_s, target_verts_s,
                      samples_u_s, samples_v_s>>)

\* lines 194-197: each samples item arrives as a list; its first element counts
first_of(samples) == samples[1]

\* lines 199-209: the (u, v) arrays handed to the surface for one tuple
target_params(t) ==
    IF eval_mode = "GRID"
    THEN make_grid_input(t[1], first_of(t[5]), first_of(t[6]))
    ELSE IF input_mode = "VERTICES"
    THEN parse_input(orientation, t[4])
    ELSE <<np_array(t[2]), np_array(t[3])>>

new_edges(t) ==
    IF eval_mode = "GRID"
    THEN make_edges_xy(first_of(t[5]), first_of(t[6])) ELSE <<>>

new_faces(t) ==
    IF eval_mode = "GRID"
    THEN make_faces_xy(first_of(t[5]), first_of(t[6])) ELSE <<>>

\* lines 210-216
new_verts(t) ==
    LET uv  == target_params(t)
        raw == evaluate_array(t[1], uv[1], uv[2])
    IN  IF coord_mode = "XY" THEN build_output(t[1], raw) ELSE raw

\* the tuple raises before the surface is evaluated / after it
raises_before_eval(t) ==
    eval_mode # "GRID" /\ input_mode = "VERTICES" /\ parse_input_raises(t[4])
raises_after_eval(t) ==
    coord_mode = "XY" /\ build_output_raises(t[1])

\* A constructed node before process() runs.  eval_mode, input_mode and
\* orientation take the combinations that differ in what process() does:
\* input_mode only matters in explicit mode, orientation only for vertices.
Init ==
    /\ coord_mode \in {"XY", "UV"}
    /\ \/ eval_mode = "GRID" /\ input_mode = "PAIRS" /\ orientation = "XY"
       \/ eval_mode = "EXPLICIT" /\ input_mode = "PAIRS" /\ orientation = "XY"
       \/ eval_mode = "EXPLICIT" /\ input_mode = "VERTICES"
            /\ orientation \in {"XY", "YZ", "XZ"}
    /\ linked \in { {}, {"Vertices", "Faces"} }
    /\ surfaces_s = <<>> /\ target_us_s = <<>> /\ target_vs_s = <<>>
    /\ target_verts_s = <<>> /\ samples_u_s = <<>> /\ samples_v_s = <<>>
    /\ verts_out = <<>> /\ edges_out = <<>> /\ faces_out = <<>>
    /\ idx = 0
    /\ pc = "idle"
    /\ calls = <<>>
    /\ warnings = 0
    /\ sv_get_calls = 0
    /\ sv_set_calls = 0
    /\ outputs = [o \in Outputs |-> <<>>]

\* lines 175-176: nothing is linked, process returns at once
ProcessNotLinked ==
    /\ pc = "idle"
    /\ ~(\E socket \in Outputs : socket \in linked)
    /\ pc' = "done"
    /\ UNCHANGED <<props, socket_data, verts_out, edges_out, faces_out, idx,
                   calls, warnings, sv_get_calls, sv_set_calls, outputs>>

\* variant: process without the is_linked test
ProcessReadInputs_unconditional ==
    /\ pc = "idle"
    /\ \E g \in IF samples_hidden THEN ExplicitSockets ELSE GridSockets :
          surfaces_s' = g[1] /\ samples_u_s' = g[2] /\ samples_v_s' = g[3]
    /\ target_us_s' = EmptyDefault /\ target_vs_s' = EmptyDefault
    /\ target_verts_s' = EmptyDefault
    /\ sv_get_calls' = sv_get_calls + 6
    /\ verts_out' = <<>> /\ edges_out' = <<>> /\ faces_out' = <<>>
    /\ idx' = 0
    /\ pc' = "loop"
    /\ UNCHANGED <<props, calls, warnings, sv_set_calls, outputs>>

\* lines 175-187: an output is linked; the six sv_get calls, then the empty
\* result lists
ProcessReadInputs ==
    /\ pc = "idle"
    /\ \E socket \in Outputs : socket \in linked
    /\ \E g \in IF samples_hidden THEN ExplicitSockets ELSE GridSockets :
          surfaces_s' = g[1] /\ samples_u_s' = g[2] /\ samples_v_s' = g[3]
    /\ IF uv_hidden
       THEN target_us_s' = EmptyDefault /\ target_vs_s' = EmptyDefault
       ELSE \/ target_us_s' = EmptyDefault /\ target_vs_s' = EmptyDefault
            \/ target_us_s' \in BatchSeq(ULists) /\ target_vs_s' \in { <<vs>> : vs \in VLists }
    /\ IF vertices_hidden
       THEN target_verts_s' = EmptyDefault
       ELSE target_verts_s' \in {EmptyDefault} \cup BatchSeq(VertLists)
    /\ sv_get_calls' = sv_get_calls + 6
    /\ verts_out' = <<>> /\ edges_out' = <<>> /\ faces_out' = <<>>
    /\ idx' = 0
    /\ pc' = "loop"
    /\ UNCHANGED <<props, calls, warnings, sv_set_calls, outputs>>

\* variant: the results are inserted at the front of the lists
ProcessTuple_prepend ==
    /\ pc = "loop"
    /\ idx < Len(inputs)
    /\ LET t  == inputs[idx + 1]
           uv == target_params(t)
       IN  /\ ~raises_before_eval(t) /\ ~raises_after_eval(t)
           /\ warnings' = warnings + (IF t[1].coord_mode # coord_mode THEN 1 ELSE 0)
           /\ calls' = Append(calls, [surface |-> t[1], us |-> uv[1], vs |-> uv[2]])
           /\ verts_out' = <<new_verts(t)>> \o verts_out
           /\ edges_out' = <<new_edges(t)>> \o edges_out
           /\ faces_out' = <<new_faces(t)>> \o faces_out
    /\ idx' = idx + 1
    /\ UNCHANGED <<props, socket_data, pc, sv_get_calls, sv_set_calls, outputs>>

\* lines 190-219: one iteration of the loop that completes
ProcessTuple ==
    /\ pc = "loop"
    /\ idx < Len(inputs)
    /\ LET t  == inputs[idx + 1]
           uv == target_params(t)
       IN  /\ ~raises_before_eval(t) /\ ~raises_after_eval(t)
           /\ warnings' = warnings + (IF t[1].coord_mode # coord_mode THEN 1 ELSE 0)
           /\ calls' = Append(calls, [surface |-> t[1], us |-> uv[1], vs |-> uv[2]])
           /\ verts_out' = Append(verts_out, new_verts(t))
           /\ edges_out' = Append(edges_out, new_edges(t))
           /\ faces_out' = Append(faces_out, new_faces(t))
    /\ idx' = idx + 1
    /\ UNCHANGED <<props, socket_data, pc, sv_get_calls, sv_set_calls, outputs>>

\* lines 190-213: one iteration that ends in an exception; process is left
\* without setting any output
ProcessTupleRaises ==
    /\ pc = "loop"
    /\ idx < Len(inputs)
    /\ LET t == inputs[idx + 1]
       IN  /\ raises_before_eval(t) \/ raises_after_eval(t)
           /\ warnings' = warnings + (IF t[1].coord_mode # coord_mode THEN 1 ELSE 0)
           /\ calls' = IF raises_before_eval(t) THEN calls
                       ELSE LET uv == target_params(t)
                            IN  Append(calls, [surface |-> t[1], us |-> uv[1], vs |-> uv[2]])
    /\ pc' = "failed"
    /\ UNCHANGED <<props, socket_data, verts_out, edges_out, faces_out, idx,
                   sv_get_calls, sv_set_calls, outputs>>

\* lines 221-223
ProcessSetOutputs ==
    /\ pc = "loop"
    /\ idx = Len(inputs)
    /\ outputs' = [o \in Outputs |->
                      IF o = "Vertices" THEN verts_out
                      ELSE IF o = "Edges" THEN edges_out ELSE faces_out]
    /\ sv_set_calls' = sv_set_calls + 3
    /\ pc' = "done"
    /\ UNCHANGED <<props, socket_data, verts_out, edges_out, faces_out, idx,
                   calls, warnings, sv_get_calls>>

Next ==
    \/ ProcessNotLinked
    \/ ProcessReadInputs
    \/ ProcessTuple
    \/ ProcessTupleRaises
    \/ ProcessSetOutputs

Spec == Init /\ [][Next]_vars

---------------------------------------------------------------------------
(* Vocabulary of the properties, stated without the operators of process() *)

\* element p of a socket list under repeat-last alignment
aligned(lst, p) == lst[IF p < Len(lst) THEN p ELSE Len(lst)]

\* number of aligned tuples: the length of the longest socket list
n_tuples ==
    LET lens == { Len(surfaces_s), Len(target_us_s), Len(target_vs_s),
                  Len(target_verts_s), Len(samples_u_s), Len(samples_v_s) }
    IN  CHOOSE n \in lens : \A k \in lens : k <= n

tuple_at(p) ==
    << aligned(surfaces_s, p), aligned(target_us_s, p), aligned(target_vs_s, p),
       aligned(target_verts_s, p), aligned(samples_u_s, p), aligned(samples_v_s, p) >>

\* the sample counts of tuple p
SU(p) == aligned(samples_u_s, p)[1]
SV(p) == aligned(samples_v_s, p)[1]

\* tuple p was sampled on a grid the data model allows
ProperGrid(p) == eval_mode = "GRID" /\ SU(p) >= 3 /\ SV(p) >= 3

\* the four sides of a quad, in the direction the quad traverses them
Sides(f) == { <<f[j], f[(j % 4) + 1]>> : j \in 1..4 }
Unordered(S) == { {s[1], s[2]} : s \in S }
Elems(seq) == { seq[k] : k \in 1..Len(seq) }

\* the axis permutation the data model prescribes for a raw point
Permuted(o, pt) ==
    IF o = "X" THEN <<pt[2], pt[3], pt[1]>>
    ELSE IF o = "Y" THEN <<pt[3], pt[1], pt[2]>>
    ELSE pt

\* the caller's explicit parameters of tuple p, as reals
Projected(o, v) ==
    IF o = "XY" THEN <<v[1], v[2]>>
    ELSE IF o = "YZ" THEN <<v[2], v[3]>>
    ELSE <<v[1], v[3]>>

CallerUs(p) ==
    IF input_mode = "VERTICES"
    THEN [k \in 1..Len(aligned(target_verts_s, p)) |->
             <<Projected(orientation, aligned(target_verts_s, p)[k])[1], 1>>]
    ELSE [k \in 1..Len(aligned(target_us_s, p)) |-> <<aligned(target_us_s, p)[k], 1>>]

CallerVs(p) ==
    IF input_mode = "VERTICES"
    THEN [k \in 1..Len(aligned(target_verts_s, p)) |->
             <<Projected(orientation, aligned(target_verts_s, p)[k])[2], 1>>]
    ELSE [k \in 1..Len(aligned(target_vs_s, p)) |-> <<aligned(target_vs_s, p)[k], 1>>]

\* the surface's answer to the call logged for tuple p
RawPoints(p) == evaluate_array(calls[p].surface, calls[p].us, calls[p].vs)

---------------------------------------------------------------------------
(* The properties *)

\* C1: on a grid of m = samplesU >= 3 by n = samplesV >= 3 samples the edge
\* list has exactly n*(m-1) + (n-1)*m edges and the face list exactly
\* (m-1)*(n-1) faces.
C1_TopologyCount ==
    \A p \in 1..Len(edges_out) :
        ProperGrid(p) =>
            /\ Len(edges_out[p]) = SV(p) * (SU(p) - 1) + (SV(p) - 1) * SU(p)
            /\ Len(faces_out[p]) = (SU(p) - 1) * (SV(p) - 1)

C1_Witness ==
    /\ pc = "done" /\ sv_set_calls > 0
    /\ \E p \in 1..Len(edges_out) :
          ProperGrid(p) /\ SU(p) # SV(p) /\ Len(outputs["Edges"][p]) > 0

\* C2: on such a grid every face has 4 mutually distinct indices, each in
\* [0, samplesU*samplesV), and each the index of a point of the same tuple's
\* point batch.
C2_FaceIndices ==
    \A p \in 1..Len(faces_out) :
        ProperGrid(p) =>
            \A f \in Elems(faces_out[p]) :
                /\ Len(f) = 4
                /\ Cardinality({ f[j] : j \in 1..4 }) = 4
                /\ \A j \in 1..4 :
                      /\ 0 <= f[j] /\ f[j] < SU(p) * SV(p)
                      /\ f[j] + 1 \in 1..Len(verts_out[p])

C2_Witness ==
    /\ pc = "done" /\ sv_set_calls > 0
    /\ \E p \in 1..Len(faces_out) :
          /\ ProperGrid(p)
          /\ \E f \in Elems(outputs["Faces"][p]) : f[3] = SU(p) * SV(p) - 1

\* C3: winding is consistent: no two distinct faces of a grid traverse a
\* common side in the same direction, so a side two faces share is a->b in
\* one and b->a in the other.
C3_Winding ==
    \A p \in 1..Len(faces_out) :
        ProperGrid(p) =>
            \A i, j \in 1..Len(faces_out[p]) :
                i # j =>
                    /\ Sides(faces_out[p][i]) \cap Sides(faces_out[p][j]) = {}
                    /\ \A s \in Sides(faces_out[p][i]) :
                          {s[1], s[2]} \in Unordered(Sides(faces_out[p][j]))
                              => <<s[2], s[1]>> \in Sides(faces_out[p][j])

C3_Witness ==
    \E p \in 1..Len(faces_out) :
        /\ ProperGrid(p)
        /\ \E i, j, k \in 1..Len(faces_out[p]) :
              /\ j = i + 1 /\ k = i + SU(p) - 1
              /\ \E s \in Sides(faces_out[p][i]) : <<s[2], s[1]>> \in Sides(faces_out[p][j])
              /\ \E s \in Sides(faces_out[p][i]) : <<s[2], s[1]>> \in Sides(faces_out[p][k])

\* C4: in grid mode the surface receives two flattened parameter arrays of
\* length samplesU*samplesV in row-major order: position r*samplesU + c
\* holds (uArray[c], vArray[r]); and the edges follow that indexing: an edge
\* joins two positions that differ in exactly one of u and v.
C4_GridOrdering ==
    eval_mode = "GRID" =>
        \A p \in 1..Len(calls) :
            LET s  == aligned(surfaces_s, p)
                m  == SU(p)
                n  == SV(p)
                uA == linspace(s.u_min, s.u_max, m)
                vA == linspace(s.v_min, s.v_max, n)
                us == calls[p].us
                vs == calls[p].vs
            IN  /\ Len(us) = m * n /\ Len(vs) = m * n
                /\ \A r \in 0..(n - 1) : \A c \in 0..(m - 1) :
                      /\ us[r * m + c + 1] = uA[c + 1]
                      /\ vs[r * m + c + 1] = vA[r + 1]
                /\ p <= Len(edges_out) =>
                      \A e \in Elems(edges_out[p]) :
                          (us[e[1] + 1] = us[e[2] + 1]) # (vs[e[1] + 1] = vs[e[2] + 1])

C4_Witness ==
    /\ eval_mode = "GRID" /\ pc = "done" /\ sv_set_calls > 0
    /\ \E p \in 1..Len(calls) :
          /\ SU(p) = 4 /\ SV(p) = 3
          /\ calls[p].us[2 * 4 + 3 + 1] # calls[p].us[1]
          /\ calls[p].vs[2 * 4 + 3 + 1] # calls[p].vs[1]

\* C5: in planar ("XY") coordinate mode every output point is the raw point
\* permuted by the surface's input orientation: X gives (y, z, x), Y gives
\* (z, x, y), Z leaves it unchanged.
C5_Permutation ==
    coord_mode = "XY" =>
        \A p \in 1..Len(verts_out) :
            \A k \in 1..Len(verts_out[p]) :
                verts_out[p][k] = Permuted(calls[p].surface.input_orientation, RawPoints(p)[k])

\* C6: in grid mode no points, edges or faces are produced for a tuple with
\* samplesU < 3 or samplesV < 3.
C6_DegenerateRejected ==
    eval_mode = "GRID" =>
        \A p \in 1..Len(verts_out) : SU(p) >= 3 /\ SV(p) >= 3

\* C7 as stated: in explicit mode the edge and face batches are empty and the
\* point batch is the surface's evaluation at exactly the caller's parameters.
C7_ExplicitRawPoints ==
    eval_mode = "EXPLICIT" =>
        \A p \in 1..Len(verts_out) :
            /\ edges_out[p] = <<>> /\ faces_out[p] = <<>>
            /\ verts_out[p] = evaluate_array(aligned(surfaces_s, p), CallerUs(p), CallerVs(p))

\* C7 as amended: in explicit mode the edge and face batches are empty, the
\* surface is evaluated at exactly the caller's parameters (paired scalars
\* unchanged, vertices projected XY -> (x,y), YZ -> (y,z), XZ -> (x,z)), one
\* point per position; in general-UV coordinate mode the point batch is that
\* evaluation unchanged and in planar mode it is that evaluation passed
\* through build_output.  Sample counts and domain bounds play no part.
C7_ExplicitPassThrough ==
    eval_mode = "EXPLICIT" =>
        /\ \A p \in 1..Len(calls) :
              /\ calls[p].surface = aligned(surfaces_s, p)
              /\ calls[p].us = CallerUs(p) /\ calls[p].vs = CallerVs(p)
        /\ \A p \in 1..Len(verts_out) :
              LET raw == evaluate_array(aligned(surfaces_s, p), CallerUs(p), CallerVs(p))
              IN  /\ edges_out[p] = <<>> /\ faces_out[p] = <<>>
                  /\ Len(verts_out[p]) = Len(CallerUs(p))
                  /\ coord_mode = "UV" => verts_out[p] = raw
                  /\ coord_mode = "XY" => verts_out[p] = build_output(aligned(surfaces_s, p), raw)

C7_Witness ==
    /\ eval_mode = "EXPLICIT" /\ input_mode = "VERTICES" /\ orientation = "YZ"
    /\ pc = "done" /\ sv_set_calls > 0
    /\ \E p \in 1..Len(calls) :
          /\ Len(calls[p].us) = 2
          /\ calls[p].us[1] # <<aligned(target_verts_s, p)[1][1], 1>>
          /\ outputs["Vertices"][p] # <<>>

\* C8: once process has set the outputs, the three output collections have
\* the length of the longest input collection, and position p of each holds
\* the result of aligned input tuple p, a function of that tuple alone;
\* while the loop runs the three lists grow together in tuple order.
C8_ParallelOutputs ==
    /\ Len(verts_out) = idx /\ Len(edges_out) = idx /\ Len(faces_out) = idx
    /\ \A p \in 1..idx :
          /\ verts_out[p] = new_verts(tuple_at(p))
          /\ edges_out[p] = new_edges(tuple_at(p))
          /\ faces_out[p] = new_faces(tuple_at(p))
    /\ sv_set_calls > 0 =>
          /\ idx = n_tuples
          /\ outputs["Vertices"] = verts_out
          /\ outputs["Edges"] = edges_out
          /\ outputs["Faces"] = faces_out

C8_Witness ==
    /\ pc = "done" /\ sv_set_calls > 0
    /\ Len(outputs["Vertices"]) = 2
    /\ Len(surfaces_s) = 1 /\ Len(samples_u_s) = 2
    /\ outputs["Vertices"][1] # outputs["Vertices"][2]
    /\ outputs["Edges"][1] # outputs["Edges"][2]

\* C9: while no output is linked, process evaluates no surface, reads no
\* input and sets no output.
C9_DemandDriven ==
    linked = {} =>
        /\ calls = <<>>
        /\ sv_get_calls = 0
        /\ sv_set_calls = 0
        /\ outputs = [o \in Outputs |-> <<>>]

C9_Witness == linked = {} /\ pc = "done"

\* C10: on a grid of at least 3 by 3 samples the unordered pairs of the edge
\* list are exactly the sides of the faces, every edge (a, b) has
\* a < b < samplesU*samplesV, and no unordered pair occurs twice.
C10_EdgesMatchFaces ==
    \A p \in 1..Len(edges_out) :
        ProperGrid(p) =>
            LET E == edges_out[p]
                F == faces_out[p]
            IN  /\ Unordered(Elems(E)) = UNION { Unordered(Sides(f)) : f \in Elems(F) }
                /\ \A e \in Elems(E) : 0 <= e[1] /\ e[1] < e[2] /\ e[2] < SU(p) * SV(p)
                /\ Cardinality(Unordered(Elems(E))) = Len(E)

C10_Witness ==
    \E p \in 1..Len(edges_out) :
        /\ ProperGrid(p) /\ SU(p) = 3 /\ SV(p) = 4
        /\ <<8, 11>> \in Elems(edges_out[p])
        /\ <<9, 10>> \in Elems(edges_out[p])

============================================================================
